---- MODULE Spec2Model ----
(***************************************************************************)
(* Model of the authority connectors of tei-publisher-components.          *)
(*                                                                         *)
(* src/src/authority/custom.js, class Custom (the "AggregatingConnector"   *)
(* of the specification): one local register plus an ordered list of child *)
(* connectors.  One call of query, info or select is followed from the     *)
(* call to the point where no continuation of it is left to run.  The      *)
(* local register (fetch) and the child connectors are the environment:    *)
(* each of their answers is a nondeterministic choice.                     *)
(*                                                                         *)
(* Identifiers are the numbers 1..MaxId, the empty key is EmptyKey.  A     *)
(* record keeps the fields the connector looks at (id, provider); the      *)
(* field origin stands for the rest of its content (label, link, details), *)
(* which the connector copies unchanged: 0 for the local register, c for   *)
(* the c-th child connector.                                               *)
(***************************************************************************)
EXTENDS Integers, Sequences, FiniteSets, TLC

\* ---------------------------------------------------------------- bounds
MaxChildren == 3      \* a connector has 0..MaxChildren child connectors
MaxId == 2            \* identifiers are 1..MaxId
MaxItems == 2         \* a result list has at most MaxItems items
MaxExtra == 1         \* a child's reported totalItems exceeds its items by at most MaxExtra

Ids == 1..MaxId
EmptyKey == 0         \* the empty string: the only falsy key
Keys == Ids \cup {EmptyKey}

\* HTTP statuses the local register answers with; Response.ok is 200..299
Statuses == {200, 404, 500}
ResponseOk(status) == status \in 200..299

\* ------------------------------------------------- transport (fetch)
\* how a fetch to the local register ended: not yet, rejected (transport
\* failure), or a response with a status and a body that response.json()
\* decodes to a value or rejects (the body of a not-ok response is never read)
NoAnswer == [kind |-> "none"]
TransportFailure == [kind |-> "reject"]
BadBody == [decodes |-> FALSE]
JsonBody(v) == [decodes |-> TRUE, value |-> v]

\* ------------------------------------------------------------ JS values
Undefined == [js |-> "undefined"]
Null == [js |-> "null"]
\* what a rejected child call settles with (the reason is never looked at)
Rejected == [js |-> "rejected"]
Truthy(v) == v # Undefined /\ v # Null

\* a promise: pending until the first resolve or reject, fixed afterwards
Pending == [state |-> "pending"]
Resolve(p, v) == IF p.state = "pending" THEN [state |-> "resolved", value |-> v] ELSE p
Reject(p, e) == IF p.state = "pending" THEN [state |-> "rejected", value |-> e] ELSE p

\* ------------------------------------------------------------- records
\* sequences without repeated elements, of length at most n
RECURSIVE DistinctSeqs(_, _)
DistinctSeqs(S, n) ==
  IF n = 0 THEN {<<>>}
  ELSE {<<>>} \cup UNION {{<<x>> \o s : s \in DistinctSeqs(S \ {x}, n - 1)} : x \in S}

\* the body of the local register's search response: items with distinct ids
LocalJson == {[i \in 1..Len(s) |-> [id |-> s[i]]] : s \in DistinctSeqs(Ids, MaxItems)}

\* custom.js 35-42: the record built for one item of the local response
LocalRecord(item) == [id |-> item.id, provider |-> "local", origin |-> 0]

\* a record produced by child connector c (provider 'Reconciliation')
ChildRecord(i, c) == [id |-> i, provider |-> "Reconciliation", origin |-> c]

\* what child c's query resolves with: {totalItems, items}
ChildResults(c) ==
  {[totalItems |-> Len(s) + x, items |-> [i \in 1..Len(s) |-> ChildRecord(s[i], c)]] :
     s \in DistinctSeqs(Ids, MaxItems), x \in 0..MaxExtra}

SeqIds(s) == {s[i].id : i \in 1..Len(s)}

\* variant of MergeChild: a child's items are filtered against everything
\* merged so far, earlier children included
MergeChildRunning(res, local, dr) ==
  res \o SelectSeq(dr.items, LAMBDA r : r.id \notin (local \cup SeqIds(res)))

\* variant of MergeChild: the child's items are appended unfiltered
MergeChildUnfiltered(res, local, dr) == res \o dr.items

\* custom.js 50: results.concat(dr.items.filter(r => !localResults.has(r.id)))
MergeChild(res, local, dr) == res \o SelectSeq(dr.items, LAMBDA r : r.id \notin local)

\* variant of AddTotal: the child's items are counted, not its reported total
AddTotalCounted(total, dr) == total + Len(dr.items)

\* custom.js 51: totalItems += dr.totalItems
AddTotal(total, dr) == total + dr.totalItems

VARIABLES
  connectors,    \* this._connectors: the children are 1..connectors, in configured order
  op,            \* the method called: "none", "query", "info", "select"
  pc,            \* where the call is
  key,           \* the argument: key of query/info, item.id of select
  promise,       \* the promise returned to the caller
  local,         \* how the request to the local register ended
  json,          \* query: the decoded body of the local search
  results,       \* query: let results
  localResults,  \* query: const localResults (a Set of ids)
  totalItems,    \* query: let totalItems
  idx,           \* position of the for..of loop over this._connectors
  calls,         \* the children called so far, in call order
  settled,       \* what each of these calls settled with
  container,     \* info: who wrote container.innerHTML last (-1: nobody)
  entry,         \* select: let entry
  posts          \* select: the POST requests sent to the local register

cvars == <<connectors, op, pc, key, promise, local, json, results, localResults,
           totalItems, idx, calls, settled, container, entry, posts>>

\* The reconciliation connector (the "RemoteConnector" of the specification),
\* class ReconciliationService of src/unnamed/part_001
VARIABLES
  manifest,         \* the manifest document the remote service serves
  manifestFetch,    \* the promise of getServiceManifest: "pending", "resolved", "rejected"
  manifestFetches,  \* the number of manifest requests sent so far
  ReconcConfig,     \* this.ReconcConfig
  reconcVersion,    \* this.reconcVersion
  prefix,           \* this._prefix
  processLang,      \* this.processLang
  acceptLang,       \* this.acceptLang
  rop,              \* the method called: "none", "query", "info", "getRecord"
  rpc,              \* where the call is
  rkey,             \* the argument of the call
  lookup,           \* the id the call hands to the remote service
  calledWith,       \* this.reconcVersion when the method was called (what query builds its request for)
  parsedWith,       \* query: the version _parseResponse was called with
  requests,         \* the requests the call has sent
  answer,           \* how the awaited request ended
  rpromise,         \* the promise returned to the caller
  innerHTML         \* container.innerHTML

rvars == <<manifest, manifestFetch, manifestFetches, ReconcConfig, reconcVersion,
           prefix, processLang, acceptLang, rop, rpc, rkey, lookup, calledWith,
           parsedWith, requests, answer, rpromise, innerHTML>>

\* ------------------------------------------------- class Metagrid
VARIABLES
  mop,              \* the method called: "none", "query", "info"
  mpc,              \* where the call is
  mkey,             \* the argument of the call
  mrequest,         \* the request the call has sent to api.metagrid.ch
  manswer,          \* how the awaited request ended
  mpromise,         \* the promise returned to the caller
  mcontainer,       \* what info has rendered into container.innerHTML
  emitted           \* the resources query has emitted records for, under the record's id

mvars == <<mop, mpc, mkey, mrequest, manswer, mpromise, mcontainer, emitted>>

vars == <<cvars, rvars, mvars>>

\* ------------------------------------------------- version strings
\* A version string is its dot-separated numbers and its pre-release tags:
\* "0.3" is [parts |-> <<0, 3>>, pre |-> <<>>], "0.2-alpha" is
\* [parts |-> <<0, 2>>, pre |-> <<"alpha">>].
UndefinedVersion == [js |-> "undefined"]
NullVersion == [js |-> "null"]
NoConfig == [js |-> "undefined"]
NoLang == ""
NoText == <<>>

\* the connector before its constructor ran: the state the remote variables
\* keep while the aggregating connector is followed
RemoteAbsent ==
  /\ manifest = [hasVersions |-> FALSE, versions |-> <<>>, preview |-> FALSE, view |-> FALSE]
  /\ manifestFetch = "none"
  /\ manifestFetches = 0
  /\ ReconcConfig = NoConfig
  /\ reconcVersion = UndefinedVersion
  /\ prefix = NoText
  /\ processLang = NoLang
  /\ acceptLang = NoLang
  /\ rop = "none"
  /\ rpc = "idle"
  /\ rkey = NoText
  /\ lookup = NoText
  /\ calledWith = UndefinedVersion
  /\ parsedWith = UndefinedVersion
  /\ requests = <<>>
  /\ answer = [kind |-> "none"]
  /\ rpromise = [state |-> "pending"]
  /\ innerHTML = NoText

\* the Metagrid connector before any call: the state its variables keep
\* while another connector is followed
MetagridAbsent ==
  /\ mop = "none"
  /\ mpc = "idle"
  /\ mkey = NoText
  /\ mrequest = [kind |-> "none"]
  /\ manswer = NoAnswer
  /\ mpromise = Pending
  /\ mcontainer = <<>>
  /\ emitted = {}

Init ==
  /\ connectors \in 0..MaxChildren
  /\ op = "none"
  /\ pc = "idle"
  /\ key = EmptyKey
  /\ promise = Pending
  /\ local = NoAnswer
  /\ json = <<>>
  /\ results = <<>>
  /\ localResults = {}
  /\ totalItems = 0
  /\ idx = 0
  /\ calls = <<>>
  /\ settled = <<>>
  /\ container = -1
  /\ entry = Undefined
  /\ posts = <<>>
  /\ RemoteAbsent
  /\ MetagridAbsent

\* a call starts from a fresh activation: nothing of an earlier call is kept
Fresh(o, k) ==
  /\ pc \in {"idle", "done"}
  /\ op' = o
  /\ key' = k
  /\ local' = NoAnswer
  /\ json' = <<>>
  /\ results' = <<>>
  /\ localResults' = {}
  /\ totalItems' = 0
  /\ settled' = <<>>
  /\ container' = -1
  /\ entry' = Undefined
  /\ posts' = <<>>
  /\ UNCHANGED <<rvars, mvars, connectors>>

\* ------------------------------------------------------------ query
\* custom.js 25-29: the promise is created and the local search is sent
QueryStart ==
  \E k \in Ids :
    /\ Fresh("query", k)
    /\ pc' = "localSearch"
    /\ promise' = Pending
    /\ idx' = 0
    /\ calls' = <<>>

\* custom.js 27-30: fetch rejects, or response.json() rejects.  The chain
\* fetch().then().then() has no rejection handler and the executor takes
\* resolve only: the promise of line 26 is left pending.
QueryLocalFail ==
  /\ pc = "localSearch"
  /\ \E r \in {TransportFailure} \cup {[kind |-> "response", status |-> st, body |-> BadBody] : st \in Statuses} :
       local' = r
  /\ pc' = "done"
  /\ UNCHANGED <<rvars, mvars, connectors, op, key, promise, json, results, localResults,
                 totalItems, idx, calls, settled, container, entry, posts>>

\* custom.js 31-47 (and 53-56 without children): the local body is decoded
QueryLocalOk ==
  /\ pc = "localSearch"
  /\ \E j \in LocalJson :
       LET res == [i \in 1..Len(j) |-> LocalRecord(j[i])] IN
       /\ json' = j
       /\ results' = res
       /\ localResults' = SeqIds(j)
       /\ totalItems' = Len(j)
       /\ IF connectors = 0
          THEN /\ promise' = Resolve(promise, [totalItems |-> Len(j), items |-> res])
               /\ pc' = "done"
               /\ UNCHANGED <<idx, calls>>
          ELSE /\ idx' = 1
               /\ calls' = <<1>>
               /\ pc' = "childQuery"
               /\ UNCHANGED promise
  /\ \E st \in Statuses : local' = [kind |-> "response", status |-> st, body |-> JsonBody(json')]
  /\ UNCHANGED <<rvars, mvars, connectors, op, key, settled, container, entry, posts>>

\* custom.js 49-56: the awaited child query resolves with dr
ChildQueryResolve ==
  /\ pc = "childQuery"
  /\ \E dr \in ChildResults(idx) :
       LET res == MergeChild(results, localResults, dr)
           tot == AddTotal(totalItems, dr) IN
       /\ results' = res
       /\ totalItems' = tot
       /\ settled' = Append(settled, dr)
       /\ IF idx = connectors
          THEN /\ promise' = Resolve(promise, [totalItems |-> tot, items |-> res])
               /\ pc' = "done"
               /\ UNCHANGED <<idx, calls>>
          ELSE /\ idx' = idx + 1
               /\ calls' = Append(calls, idx + 1)
               /\ UNCHANGED <<pc, promise>>
  /\ UNCHANGED <<rvars, mvars, connectors, op, key, local, json, localResults, container, entry, posts>>

\* custom.js 49: the awaited child query rejects.  No try/catch: the async
\* callback of line 31 throws, nothing handles it, resolve is never called.
ChildQueryReject ==
  /\ pc = "childQuery"
  /\ settled' = Append(settled, Rejected)
  /\ pc' = "done"
  /\ UNCHANGED <<rvars, mvars, connectors, op, key, promise, local, json, results, localResults,
                 totalItems, idx, calls, container, entry, posts>>

\* ------------------------------------------------------------- info
\* custom.js 76-78: the descriptor built from the local record (origin 0);
\* a child's descriptor carries the child's number
Descriptor(k, c) == [id |-> k, origin |-> c]
EmptyDescriptor == [empty |-> TRUE]

\* variant of InfoFound: whatever the child resolved with is passed on
InfoFoundAlways(cr) == TRUE

\* custom.js 93: if (cr)
InfoFound(cr) == Truthy(cr)

\* what child c's info settles with: the promise rejects, resolves with
\* undefined (no preview template), or resolves with a descriptor
ChildInfos(k, c) == {Rejected, Undefined, Descriptor(k, c)}

\* custom.js 61-70: an empty key resolves at once; otherwise the promise is
\* created and the local register is asked
InfoStart ==
  \E k \in Keys :
    /\ Fresh("info", k)
    /\ IF k = EmptyKey
       THEN /\ promise' = Resolve(Pending, EmptyDescriptor)
            /\ pc' = "done"
       ELSE /\ promise' = Pending
            /\ pc' = "localInfo"
    /\ idx' = 0
    /\ calls' = <<>>

\* custom.js 70: fetch rejects; then() has no rejection handler and nothing
\* calls resolve or reject
InfoLocalReject ==
  /\ pc = "localInfo"
  /\ local' = TransportFailure
  /\ pc' = "done"
  /\ UNCHANGED <<rvars, mvars, connectors, op, key, promise, json, results, localResults,
                 totalItems, idx, calls, settled, container, entry, posts>>

\* custom.js 72-81: the local register has the entry
InfoLocalOk ==
  /\ pc = "localInfo"
  /\ \E st \in {s \in Statuses : ResponseOk(s)}, b \in {BadBody, JsonBody(Descriptor(key, 0))} :
       /\ local' = [kind |-> "response", status |-> st, body |-> b]
       /\ IF b = BadBody
          THEN \* await response.json() throws inside the async callback
               UNCHANGED <<promise, container>>
          ELSE /\ container' = 0
               /\ promise' = Resolve(promise, b.value)
  /\ pc' = "done"
  /\ UNCHANGED <<rvars, mvars, connectors, op, key, json, results, localResults,
                 totalItems, idx, calls, settled, entry, posts>>

\* custom.js 82-86 and 106: a response that is not ok; 404 starts the loop
\* over the children, every other status (and 404 without children) falls
\* through to reject()
InfoLocalNotOk ==
  /\ pc = "localInfo"
  /\ \E st \in {s \in Statuses : ~ResponseOk(s)} :
       /\ local' = [kind |-> "response", status |-> st, body |-> BadBody]
       /\ IF st = 404 /\ connectors > 0
          THEN /\ idx' = 1
               /\ calls' = <<1>>
               /\ pc' = "childInfo"
               /\ UNCHANGED promise
          ELSE /\ promise' = Reject(promise, Undefined)
               /\ pc' = "done"
               /\ UNCHANGED <<idx, calls>>
  /\ UNCHANGED <<rvars, mvars, connectors, op, key, json, results, localResults,
                 totalItems, settled, container, entry, posts>>

\* custom.js 87-106: the awaited child info settles.  A child that resolves
\* has written the container.  resolve(cr) does not leave the loop; after
\* the last child reject() is called whatever happened before.
ChildInfoSettle ==
  /\ pc = "childInfo"
  /\ \E cr \in ChildInfos(key, idx) :
       LET p == IF cr # Rejected /\ InfoFound(cr) THEN Resolve(promise, cr) ELSE promise IN
       /\ settled' = Append(settled, cr)
       /\ container' = IF cr # Rejected THEN idx ELSE container
       /\ IF idx = connectors
          THEN /\ promise' = Reject(p, Undefined)
               /\ pc' = "done"
               /\ UNCHANGED <<idx, calls>>
          ELSE /\ promise' = p
               /\ idx' = idx + 1
               /\ calls' = Append(calls, idx + 1)
               /\ UNCHANGED pc
  /\ UNCHANGED <<rvars, mvars, connectors, op, key, local, json, results, localResults,
                 totalItems, entry, posts>>

\* ----------------------------------------------------------- select
\* custom.js 135: Error(`No record found for ID ${item.id}`)
NoRecordError(id) == [name |-> "Error", message |-> <<"No record found for ID", id>>]

\* custom.js 154: Error(response.status.toString())
StatusError(status) == [name |-> "Error", message |-> <<"status", status>>]

\* the errors a failed response.json() and a failed fetch reject with
SyntaxError == [name |-> "SyntaxError", message |-> <<"body", 0>>]
TypeError == [name |-> "TypeError", message |-> <<"fetch", 0>>]

\* custom.js 141-149: the POST request to the local register
PostRequest(id, e) == [method |-> "POST", id |-> id, body |-> e]

\* variant of SelectFound: the loop is never left early
SelectFoundNever(e) == FALSE

\* custom.js 124: if (entry) ... break
SelectFound(e) == Truthy(e)

\* variant of NoEntry: the missing entry goes unnoticed
NoEntryNever(e) == FALSE

\* custom.js 131: if (!entry)
NoEntry(e) == ~Truthy(e)

\* the decoded bodies the local register answers a POST with
PostBodies == {[saved |-> i] : i \in Ids}

\* variant of PostThen: the status of the response is not looked at
PostThenUnchecked(resp) ==
  IF resp.body = BadBody
  THEN [state |-> "rejected", value |-> SyntaxError]
  ELSE [state |-> "resolved", value |-> resp.body.value]

\* custom.js 150-155: the then() of the POST: an ok response settles as
\* response.json() does, any other rejects with Error(status)
PostThen(resp) ==
  IF ResponseOk(resp.status)
  THEN IF resp.body = BadBody
       THEN [state |-> "rejected", value |-> SyntaxError]
       ELSE [state |-> "resolved", value |-> resp.body.value]
  ELSE [state |-> "rejected", value |-> StatusError(resp.status)]

\* what child c's getRecord settles with: the promise rejects, resolves with
\* undefined (items[0] of an empty list), or resolves with a record
ChildEntries(c) == {Rejected, Undefined} \cup {ChildRecord(i, c) : i \in Ids}

\* custom.js 116-136 up to the first await: without children the loop body
\* never runs and entry stays undefined
SelectStart ==
  \E i \in Ids :
    /\ Fresh("select", i)
    /\ IF connectors = 0
       THEN /\ promise' = Reject(Pending, NoRecordError(i))
            /\ pc' = "done"
            /\ idx' = 0
            /\ calls' = <<>>
       ELSE /\ promise' = Pending
            /\ pc' = "getRecord"
            /\ idx' = 1
            /\ calls' = <<1>>

\* custom.js 123-149: the awaited getRecord settles; a rejection becomes null
GetRecordSettle ==
  /\ pc = "getRecord"
  /\ \E r \in ChildEntries(idx) :
       LET e == IF r = Rejected THEN Null ELSE r IN
       /\ settled' = Append(settled, r)
       /\ entry' = e
       /\ IF ~SelectFound(e) /\ idx < connectors
          THEN /\ idx' = idx + 1
               /\ calls' = Append(calls, idx + 1)
               /\ UNCHANGED <<pc, promise, posts>>
          ELSE IF NoEntry(e)
               THEN /\ promise' = Reject(promise, NoRecordError(key))
                    /\ pc' = "done"
                    /\ UNCHANGED <<idx, calls, posts>>
               ELSE /\ posts' = Append(posts, PostRequest(key, e))
                    /\ pc' = "post"
                    /\ UNCHANGED <<idx, calls, promise>>
  /\ UNCHANGED <<rvars, mvars, connectors, op, key, local, json, results, localResults,
                 totalItems, container>>

\* custom.js 141: the POST fails at transport level: select rejects with
\* fetch's error
PostReject ==
  /\ pc = "post"
  /\ local' = TransportFailure
  /\ promise' = Reject(promise, TypeError)
  /\ pc' = "done"
  /\ UNCHANGED <<rvars, mvars, connectors, op, key, json, results, localResults, totalItems,
                 idx, calls, settled, container, entry, posts>>

\* custom.js 150-155: the local register answers the POST
PostSettle ==
  /\ pc = "post"
  /\ \E st \in Statuses, b \in {JsonBody(v) : v \in PostBodies} \cup {BadBody} :
       LET resp == [kind |-> "response", status |-> st, body |-> b]
           out == PostThen(resp) IN
       /\ local' = resp
       /\ promise' = IF out.state = "resolved" THEN Resolve(promise, out.value)
                     ELSE Reject(promise, out.value)
  /\ pc' = "done"
  /\ UNCHANGED <<rvars, mvars, connectors, op, key, json, results, localResults, totalItems,
                 idx, calls, settled, container, entry, posts>>

Next ==
  \/ QueryStart
  \/ QueryLocalFail
  \/ QueryLocalOk
  \/ ChildQueryResolve
  \/ ChildQueryReject
  \/ InfoStart
  \/ InfoLocalReject
  \/ InfoLocalOk
  \/ InfoLocalNotOk
  \/ ChildInfoSettle
  \/ SelectStart
  \/ GetRecordSettle
  \/ PostReject
  \/ PostSettle

Spec == Init /\ [][Next]_vars
\* ================================================================ query
QueryResolved == op = "query" /\ promise.state = "resolved"
QueryEnded == op = "query" /\ pc = "done"
LocalIds == {json[i].id : i \in 1..Len(json)}
LocalPart == [i \in 1..Len(json) |-> [id |-> json[i].id, provider |-> "local", origin |-> 0]]
IsRecordOf(r, c) == r.origin = c

\* the items of children 1..c that survive the comparison with the local ids
RECURSIVE RemotePart(_)
RemotePart(c) ==
  IF c = 0 THEN <<>>
  ELSE RemotePart(c - 1) \o SelectSeq(settled[c].items, LAMBDA r : r.id \notin LocalIds)

RECURSIVE SumReported(_)
SumReported(c) == IF c = 0 THEN 0 ELSE SumReported(c - 1) + settled[c].totalItems

RECURSIVE CountFiltered(_)
CountFiltered(c) ==
  IF c = 0 THEN 0
  ELSE CountFiltered(c - 1) + Len(SelectSeq(settled[c].items, LAMBDA r : r.id \in LocalIds))

\* C1: the items query resolves with are the local results in local order,
\* then for each child in configured order that child's items whose id is
\* not a local id; every child was asked once, in configured order, and an
\* item is dropped only for having a local id, never for having the id of an
\* earlier child's item.
C1_ItemsLocalThenChildren ==
  QueryResolved =>
    /\ calls = [c \in 1..connectors |-> c]
    /\ Len(settled) = connectors
    /\ promise.value.items = LocalPart \o RemotePart(connectors)

\* C1 witness: two children returned the same non-local id and both copies
\* are in the resolved items, after a local record
C1_Witness ==
  /\ QueryResolved
  /\ connectors >= 2
  /\ Len(json) >= 1
  /\ \E i, j \in 1..Len(promise.value.items) :
       /\ i < j
       /\ promise.value.items[i].id = promise.value.items[j].id
       /\ promise.value.items[i].origin = 1
       /\ promise.value.items[j].origin = 2

\* C2: totalItems is the number of local results plus the sum of the
\* totalItems every child reported, filtered duplicates included; when each
\* child reports its own item count, totalItems minus the length of items
\* is the number of filtered duplicates.
C2_TotalItemsIsSumOfReported ==
  QueryResolved =>
    /\ promise.value.totalItems = Len(json) + SumReported(connectors)
    /\ (\A c \in 1..connectors : settled[c].totalItems = Len(settled[c].items))
         => promise.value.totalItems - Len(promise.value.items) = CountFiltered(connectors)

\* C2 witness: a child reported more than it returned, an item was filtered,
\* and count and list length differ
C2_Witness ==
  /\ QueryResolved
  /\ connectors >= 1
  /\ \E c \in 1..connectors : settled[c].totalItems > Len(settled[c].items)
  /\ CountFiltered(connectors) >= 1
  /\ promise.value.totalItems > Len(promise.value.items)

\* C3 as stated: no two records of the resolved items have the same id, and
\* an id present both locally and remotely is kept as the local record.
C3_Original ==
  QueryResolved =>
    LET items == promise.value.items IN
    /\ \A i, j \in 1..Len(items) : i # j => items[i].id # items[j].id
    /\ \A i \in 1..Len(items) : items[i].id \in LocalIds => items[i].provider = "local"

\* C3 amended: no record of the resolved items that came from a child has a
\* local id, so an id present both locally and remotely is kept only as the
\* local record (provider 'local'), and two records with the same id are
\* never one local and one remote; records of different children may share
\* an id.
C3_LocalWinsOverRemote ==
  QueryResolved =>
    LET items == promise.value.items IN
    /\ \A i \in 1..Len(items) : items[i].id \in LocalIds => items[i].provider = "local"
    /\ \A i \in 1..Len(items) : items[i].provider # "local" => items[i].id \notin LocalIds
    /\ \A i, j \in 1..Len(items) :
         items[i].id = items[j].id => (items[i].provider = "local" <=> items[j].provider = "local")

\* C3 witness: an id is present locally and in a child's answer, and the
\* call has resolved
C3_Witness ==
  /\ QueryResolved
  /\ \E c \in 1..connectors : SeqIds(settled[c].items) \cap LocalIds # {}
  /\ \E c \in 1..connectors : SeqIds(settled[c].items) \ LocalIds # {}

\* C4 as stated: when a child's query has rejected, the aggregated call
\* still resolves, with the local results and the results of the other
\* children.
C4_ChildFailureIsolated ==
  (QueryEnded /\ \E c \in 1..Len(settled) : settled[c] = Rejected)
    => /\ promise.state = "resolved"
       /\ \A i \in 1..Len(json) : promise.value.items[i] = LocalPart[i]

\* C5 as stated: when the local search fails (fetch rejects or the body
\* cannot be decoded) the promise is rejected and no child was queried.
C5_LocalFailureRejects ==
  (QueryEnded /\ (local.kind = "reject" \/ (local.kind = "response" /\ local.body = BadBody)))
    => /\ promise.state = "rejected"
       /\ calls = <<>>
\* ================================================================= info
InfoCall == op = "info" /\ key # EmptyKey
\* child c's info resolved with a non-empty descriptor
Supplied(c) == settled[c] # Rejected /\ settled[c] # Undefined
\* the first child, in configured order, that supplied something
FirstSupplier == CHOOSE c \in 1..Len(settled) :
                   Supplied(c) /\ \A d \in 1..(c - 1) : ~Supplied(d)

\* C6: info with a non-empty key asks the local register first; children
\* are called only after a local 404, in configured order, the next one only
\* once the one before has settled; a child that rejects or resolves empty
\* is skipped and the next one is tried; the call resolves with the
\* descriptor of the first child that resolved non-empty; after a local OK
\* no child is called.
C6_InfoLocalFirstThenChildrenInOrder ==
  InfoCall =>
    /\ calls # <<>> => (local.kind = "response" /\ local.status = 404)
    /\ (local.kind = "response" /\ ResponseOk(local.status)) => calls = <<>>
    /\ calls = [c \in 1..Len(calls) |-> c]
    /\ Len(calls) <= connectors
    /\ Len(settled) <= Len(calls) /\ Len(calls) <= Len(settled) + 1
    /\ \A c \in 1..Len(settled) :
         (~Supplied(c) /\ c < connectors) => Len(calls) >= c + 1
    /\ (\E c \in 1..Len(settled) : Supplied(c))
         => promise = [state |-> "resolved", value |-> settled[FirstSupplier]]

\* C6 witness: after a local 404 the first child rejected or resolved
\* empty, the second and the third resolved with a descriptor, and the call
\* has resolved with the second child's
C6_Witness ==
  /\ InfoCall
  /\ local.kind = "response" /\ local.status = 404
  /\ Len(settled) >= 3
  /\ ~Supplied(1)
  /\ Supplied(2)
  /\ Supplied(3)
  /\ promise.state = "resolved"
  /\ promise.value.origin = 2

\* C7 as stated: when the local lookup fails other than by a 404 response
\* (a not-ok status other than 404, or a transport failure) the call is
\* rejected and no child's info is called.
C7_LocalInfoFailureRejects ==
  (/\ InfoCall
   /\ pc = "done"
   /\ \/ local.kind = "reject"
      \/ (local.kind = "response" /\ ~ResponseOk(local.status) /\ local.status # 404))
    => /\ promise.state = "rejected"
       /\ calls = <<>>

\* ============================================================== select
SelectCall == op = "select"
Yielded(c) == settled[c] # Rejected /\ settled[c] # Undefined
EarliestYield == CHOOSE c \in 1..Len(settled) :
                   Yielded(c) /\ \A d \in 1..(c - 1) : ~Yielded(d)

\* C8: select calls getRecord on the children in configured order, one at a
\* time; a rejection (or an empty answer) makes it try the next child; it
\* stops at the first child that yields a record, calls no later child, and
\* the record posted to the local register is that child's.
C8_SelectFirstSuccessInOrder ==
  SelectCall =>
    /\ calls = [c \in 1..Len(calls) |-> c]
    /\ Len(calls) <= connectors
    /\ Len(settled) <= Len(calls) /\ Len(calls) <= Len(settled) + 1
    /\ \A c \in 1..Len(settled) :
         /\ (~Yielded(c) /\ c < connectors) => Len(calls) >= c + 1
         /\ Yielded(c) => /\ Len(calls) = c
                          /\ Len(posts) = 1
                          /\ posts[1].body = settled[c]
    /\ posts # <<>> => (\E c \in 1..Len(settled) : Yielded(c)) /\ posts[1].body = settled[EarliestYield]

\* C8 witness: the first child rejected, the second yielded a record, a third
\* child is configured and was not called, the record posted is the second's
C8_Witness ==
  /\ SelectCall
  /\ connectors >= 3
  /\ pc = "done"
  /\ Len(settled) = 2
  /\ settled[1] = Rejected
  /\ Yielded(2)
  /\ calls = <<1, 2>>
  /\ Len(posts) = 1
  /\ posts[1].body.origin = 2

\* C9: when no child produces a record for item.id (every getRecord
\* rejects or yields nothing, or there are no children) select rejects with
\* an error that names the requested id and sends no POST.
C9_SelectNoRecordRejects ==
  (/\ SelectCall
   /\ Len(settled) = connectors
   /\ \A c \in 1..connectors : ~Yielded(c))
    => /\ pc = "done"
       /\ promise.state = "rejected"
       /\ promise.value.message[2] = key
       /\ promise.value = [name |-> "Error", message |-> <<"No record found for ID", key>>]
       /\ posts = <<>>

\* C9 witness: two children, one rejected and one yielded nothing, and the
\* call is rejected
C9_Witness ==
  /\ SelectCall
  /\ connectors >= 2
  /\ Len(settled) = connectors
  /\ settled[1] = Rejected
  /\ settled[2] = Undefined
  /\ \A c \in 1..connectors : ~Yielded(c)
  /\ promise.state = "rejected"

\* C10: once a child has supplied a record, exactly one POST is sent to the
\* local register, keyed by item.id and with that record as body; when the
\* response is not a success the call is rejected with an error carrying
\* the status of the response; when it is a success the call resolves with
\* the decoded body of the response.
C10_SelectPersistsAndReports ==
  (SelectCall /\ \E c \in 1..Len(settled) : Yielded(c)) =>
    /\ posts = <<[method |-> "POST", id |-> key, body |-> settled[EarliestYield]]>>
    /\ pc \in {"post", "done"}
    /\ pc = "post" => promise.state = "pending"
    /\ (pc = "done" /\ local.kind = "response") =>
         /\ ~(local.status \in 200..299) =>
              (promise.state = "rejected" /\ promise.value.message[2] = local.status)
         /\ (local.status \in 200..299 /\ local.body.decodes) =>
              promise = [state |-> "resolved", value |-> local.body.value]

\* C10 witness: a record was posted and the register answered with a success
\* whose decoded body the call resolved with
C10_Witness ==
  /\ SelectCall
  /\ Len(posts) = 1
  /\ pc = "done"
  /\ local.kind = "response"
  /\ local.status = 200
  /\ local.body.decodes
  /\ promise.state = "resolved"
  /\ promise.value = local.body.value

\* ======================================================================
\* The reconciliation connector: src/unnamed/part_001, ReconciliationService
\* ======================================================================

\* the aggregating connector is not followed while the reconciliation
\* connector is: its variables keep their initial values
CustomAbsent ==
  /\ connectors = 0
  /\ op = "none"
  /\ pc = "idle"
  /\ key = EmptyKey
  /\ promise = Pending
  /\ local = NoAnswer
  /\ json = <<>>
  /\ results = <<>>
  /\ localResults = {}
  /\ totalItems = 0
  /\ idx = 0
  /\ calls = <<>>
  /\ settled = <<>>
  /\ container = -1
  /\ entry = Undefined
  /\ posts = <<>>

\* ------------------------------------------------------ bounds
MaxMinor == 3         \* advertised versions are 0.1 .. 0.MaxMinor
MaxPatch == 1         \* with patch numbers 0..MaxPatch when they have one
MaxVersions == 3      \* a manifest's versions list has at most MaxVersions entries

V(parts, pre) == [parts |-> parts, pre |-> pre]

\* the version strings a manifest may advertise: "0.m", "0.m.p", each also
\* with the pre-release tag "-alpha", and the one-component string "1"
VersionStrings ==
  {V(<<0, m>>, t) : m \in 1..MaxMinor, t \in {<<>>, <<"alpha">>}}
    \cup {V(<<0, m, q>>, t) : m \in 1..MaxMinor, q \in 0..MaxPatch, t \in {<<>>, <<"alpha">>}}
    \cup {V(<<1>>, <<>>)}

RECURSIVE SeqsUpTo(_, _)
SeqsUpTo(S, n) ==
  IF n = 0 THEN {<<>>}
  ELSE {<<>>} \cup {<<x>> \o t : x \in S, t \in SeqsUpTo(S, n - 1)}

\* es-semver valid(v, {loose, includePrerelease}): three numeric components,
\* optionally followed by pre-release tags
Valid(v) == Len(v.parts) = 3

\* part_001 83: `${v}.0`: the text ".0" is appended to the whole string, so
\* it lands behind the pre-release tag when there is one
DotZero(v) ==
  IF v.pre = <<>> THEN V(v.parts \o <<0>>, <<>>) ELSE V(v.parts, v.pre \o <<"0">>)

\* part_001 84: `${v.split('-')[0]}.0-${v.split('-')[1]}`
SplitPad(v) == V(v.parts \o <<0>>, IF v.pre = <<>> THEN <<"undefined">> ELSE v.pre)

\* variant of Normalize: only the first rule, tagged versions are left alone
NormalizeDotZeroOnly(v) == IF ~Valid(v) /\ Valid(DotZero(v)) THEN DotZero(v) ELSE v

\* part_001 82-86: the function mapped over the advertised versions
Normalize(v) ==
  IF ~Valid(v) /\ Valid(DotZero(v)) THEN DotZero(v)
  ELSE IF ~Valid(v) /\ Valid(SplitPad(v)) THEN SplitPad(v)
  ELSE v

\* es-semver compare of two valid versions: -1, 0 or 1.  Numbers first; a
\* version without pre-release tag is greater than the same with one; tags
\* compare in ASCII order
TagRank(t) == IF t = "alpha" THEN 1 ELSE IF t = "beta" THEN 2 ELSE 3
ComparePre(a, b) ==
  IF a = b THEN 0
  ELSE IF a = <<>> THEN 1
  ELSE IF b = <<>> THEN -1
  ELSE IF TagRank(a[1]) < TagRank(b[1]) THEN -1 ELSE 1
Compare(a, b) ==
  IF a.parts[1] # b.parts[1] THEN (IF a.parts[1] < b.parts[1] THEN -1 ELSE 1)
  ELSE IF a.parts[2] # b.parts[2] THEN (IF a.parts[2] < b.parts[2] THEN -1 ELSE 1)
  ELSE IF a.parts[3] # b.parts[3] THEN (IF a.parts[3] < b.parts[3] THEN -1 ELSE 1)
  ELSE ComparePre(a.pre, b.pre)

\* part_001 89: the range '<0.3.1' with includePrerelease; a string that is
\* no version satisfies no range
Ceiling == V(<<0, 3, 1>>, <<>>)
Satisfies(v) == Valid(v) /\ Compare(v, Ceiling) = -1

\* es-semver maxSatisfying(versions, range): null when nothing satisfies,
\* the first of equal maxima
RECURSIVE MaxSatisfyingFrom(_, _, _)
MaxSatisfyingFrom(versions, i, max) ==
  IF i > Len(versions) THEN max
  ELSE IF Satisfies(versions[i]) /\ (max = NullVersion \/ Compare(max, versions[i]) = -1)
       THEN MaxSatisfyingFrom(versions, i + 1, versions[i])
       ELSE MaxSatisfyingFrom(versions, i + 1, max)
MaxSatisfying(versions) == MaxSatisfyingFrom(versions, 1, NullVersion)

\* part_001 89: '0.1.0'
LegacyDefault == V(<<0, 1, 0>>, <<>>)

\* part_001 26, 50, 185: '0.3.0-alpha', the newest protocol variant
Newest == V(<<0, 3, 0>>, <<"alpha">>)

\* part_001 80-87: the manifest as stored, its versions normalized in place;
\* a manifest without versions field is stored as it is ([] is truthy)
StoreManifest(result) ==
  [loaded |-> TRUE,
   hasVersions |-> result.hasVersions,
   versions |-> [i \in 1..Len(result.versions) |-> Normalize(result.versions[i])],
   preview |-> result.preview,
   view |-> result.view]

\* part_001 89: this.reconcVersion = !versions ? '0.1.0' : maxSatisfying(...)
Negotiate(cfg) == IF ~cfg.hasVersions THEN LegacyDefault ELSE MaxSatisfying(cfg.versions)

Manifest(hv, vs, pv, vw) == [hasVersions |-> hv, versions |-> vs, preview |-> pv, view |-> vw]

\* part_001 72-78: the connector right after its constructor: the attributes
\* are read and the manifest request is under way
Constructed(manifests, prefixes, plangs, alangs) ==
  /\ manifest \in manifests
  /\ manifestFetch = "pending"
  /\ manifestFetches = 1
  /\ ReconcConfig = NoConfig
  /\ reconcVersion = UndefinedVersion
  /\ prefix \in prefixes
  /\ processLang \in plangs
  /\ acceptLang \in alangs
  /\ rop = "none"
  /\ rpc = "idle"
  /\ rkey = NoText
  /\ lookup = NoText
  /\ calledWith = UndefinedVersion
  /\ parsedWith = UndefinedVersion
  /\ requests = <<>>
  /\ answer = [kind |-> "none"]
  /\ rpromise = [state |-> "pending"]
  /\ innerHTML = NoText

\* variant of ManifestPending: the callback may run again
ManifestPendingOrSettled(m) == m # "none"

\* part_001 78-79: a promise settles once: then() runs its callback at most
\* once, and only if the promise was not rejected
ManifestPending(m) == m = "pending"

\* part_001 79-100: the manifest arrives: it is stored and the version is
\* negotiated
ManifestResolve ==
  /\ ManifestPending(manifestFetch)
  /\ manifestFetch' = "resolved"
  /\ ReconcConfig' = StoreManifest(manifest)
  /\ reconcVersion' = Negotiate(ReconcConfig')
  /\ UNCHANGED <<manifest, manifestFetches, prefix, processLang, acceptLang, rop, rpc,
                 rkey, lookup, calledWith, parsedWith, requests, answer, rpromise, innerHTML>>
  /\ UNCHANGED <<cvars, mvars>>

\* part_001 11-15, 78: fetch or response.json() of getServiceManifest
\* rejects; then() has no rejection handler, nothing is stored
ManifestReject ==
  /\ ManifestPending(manifestFetch)
  /\ manifestFetch' = "rejected"
  /\ UNCHANGED <<manifest, manifestFetches, ReconcConfig, reconcVersion, prefix,
                 processLang, acceptLang, rop, rpc, rkey, lookup, calledWith,
                 parsedWith, requests, answer, rpromise, innerHTML>>
  /\ UNCHANGED <<cvars, mvars>>

\* ---------------------------------------------- negotiation on its own
\* every manifest of up to MaxVersions advertised versions
InitNegotiate ==
  /\ CustomAbsent
  /\ MetagridAbsent
  /\ Constructed({Manifest(FALSE, <<>>, TRUE, TRUE)}
                   \cup {Manifest(TRUE, vs, TRUE, TRUE) : vs \in SeqsUpTo(VersionStrings, MaxVersions)},
                 {NoText}, {NoLang}, {NoLang})

NextNegotiate ==
  \/ ManifestResolve
  \/ ManifestReject

SpecNegotiate == InitNegotiate /\ [][NextNegotiate]_vars

Str(parts, pre) == [parts |-> parts, pre |-> pre]
Negotiated == manifestFetch = "resolved"

\* C12 as stated: negotiation yields '0.1.0' when the manifest has no
\* versions field and when its versions list is empty.
C12_NoVersionsYieldsLegacyDefault ==
  (Negotiated /\ (~manifest.hasVersions \/ manifest.versions = <<>>))
    => reconcVersion = Str(<<0, 1, 0>>, <<>>)

\* what the specification's normalization makes of an advertised version:
\* a two-component version is zero-padded, a pre-release tag is kept
Padded(v) == IF Len(v.parts) = 2 THEN Str(<<v.parts[1], v.parts[2], 0>>, v.pre) ELSE v
\* below 0.3.1, pre-releases of 0.3.1 included
BelowCeiling(v) ==
  /\ Len(v.parts) = 3
  /\ \/ v.parts[1] < 0
     \/ v.parts[1] = 0 /\ v.parts[2] < 3
     \/ v.parts[1] = 0 /\ v.parts[2] = 3 /\ v.parts[3] < 1
     \/ v.parts = <<0, 3, 1>> /\ v.pre # <<>>
\* a is at most b in version order
AtMost(a, b) ==
  \/ a.parts[1] < b.parts[1]
  \/ a.parts[1] = b.parts[1] /\ a.parts[2] < b.parts[2]
  \/ a.parts[1] = b.parts[1] /\ a.parts[2] = b.parts[2] /\ a.parts[3] < b.parts[3]
  \/ a.parts = b.parts /\ (b.pre = <<>> \/ a.pre = b.pre)
Candidates == {Padded(manifest.versions[i]) : i \in 1..Len(manifest.versions)}
Admissible == {v \in Candidates : BelowCeiling(v)}

\* C13: for a manifest with a non-empty versions list of which some entry
\* satisfies the ceiling, the negotiated version is the greatest of the
\* normalized advertised versions that are below 0.3.1 (pre-releases
\* included); for ['0.3', '0.2-alpha', '0.1'] it is '0.3.0'.
C13_NegotiatedIsGreatestBelowCeiling ==
  (Negotiated /\ manifest.hasVersions /\ manifest.versions # <<>>) =>
    /\ Admissible # {} =>
         /\ reconcVersion \in Admissible
         /\ \A v \in Admissible : AtMost(v, reconcVersion)
    /\ manifest.versions = <<Str(<<0, 3>>, <<>>), Str(<<0, 2>>, <<"alpha">>), Str(<<0, 1>>, <<>>)>>
         => reconcVersion = Str(<<0, 3, 0>>, <<>>)

\* C13 witness: the manifest advertising ['0.3', '0.2-alpha', '0.1'] has been
\* negotiated to '0.3.0'
C13_Witness ==
  /\ Negotiated
  /\ manifest.versions = <<Str(<<0, 3>>, <<>>), Str(<<0, 2>>, <<"alpha">>), Str(<<0, 1>>, <<>>)>>
  /\ reconcVersion = Str(<<0, 3, 0>>, <<>>)
\* ======================================================================
\* ReconciliationService: query, info, getRecord
\* ======================================================================
MaxResultItems == 2   \* a reconciliation response has at most MaxResultItems items

\* Texts are sequences of characters.  The ids the remote service knows:
RawIds == {<<"4", "2">>, <<"a", "-", "b">>}
QueryKeys == {<<"q">>}
Prefixes == {NoText, <<"P">>}
Langs == {NoLang, "de"}

\* part_001 204, 152: `${this._prefix}-${item.id}`, or the raw id without prefix
External(pfx, raw) == IF pfx # NoText THEN pfx \o <<"-">> \o raw ELSE raw

\* variant of Strip: the separator is left on the id
StripPrefixOnly(pfx, id) == IF pfx # NoText THEN SubSeq(id, Len(pfx) + 1, Len(id)) ELSE id

\* part_001 142, 166: this._prefix ? id.substring(this._prefix.length + 1) : id
Strip(pfx, id) == IF pfx # NoText THEN SubSeq(id, Len(pfx) + 2, Len(id)) ELSE id

\* the ids a caller holds: the external ids of the records of this connector
ExternalIds == {External(prefix, r) : r \in RawIds}

TypeErrorThrown == [name |-> "TypeError", message |-> <<"undefined", 0>>]

\* part_001 24-39: queryObj
queryObj(version, k) ==
  IF version = Newest
  THEN [shape |-> "queries", query |-> k, lang |-> NoLang]
  ELSE [shape |-> "q0", query |-> k, lang |-> NoLang]

\* part_001 57, 66: JSON.stringify(...), "queries=".concat(JSON.stringify(...)):
\* the body is a string, field names the form field it is the value of
Stringified(field, obj) == [string |-> TRUE, field |-> field, json |-> obj]

\* part_001 48-69: qRequestInit
qRequestInit(version, k) ==
  IF version = Newest
  THEN [method |-> "POST", contentType |-> "application/json",
        acceptLanguage |-> NoLang, body |-> Stringified("", queryObj(version, k))]
  ELSE [method |-> "POST", contentType |-> "application/x-www-form-urlencoded",
        acceptLanguage |-> NoLang, body |-> Stringified("queries", queryObj(version, k))]

\* variant of AcceptLangApplies: the header is set for every version
AcceptLangAlways(lang, version) == lang # NoLang

\* part_001 112: if (this.acceptLang && this.reconcVersion === '0.3.0-alpha')
AcceptLangApplies(lang, version) == lang # NoLang /\ version = Newest

\* part_001 115: if (this.processLang && this.reconcVersion === '0.3.0-alpha')
ProcessLangApplies(lang, version) == lang # NoLang /\ version = Newest

\* part_001 116: qInit.body.queries[0].lang = this.processLang.  A string has
\* no property queries: reading [0] of undefined throws a TypeError
SetLang(qInit, lang) ==
  IF qInit.body.string
  THEN [thrown |-> TRUE, init |-> qInit]
  ELSE [thrown |-> FALSE, init |-> [qInit EXCEPT !.body.json.lang = lang]]

\* part_001 109-118: the request query builds, or the throw that ends it
BuildQuery(version, k, alang, plang) ==
  LET q0 == qRequestInit(version, k)
      q1 == IF AcceptLangApplies(alang, version) THEN [q0 EXCEPT !.acceptLanguage = alang] ELSE q0
  IN IF ProcessLangApplies(plang, version) THEN SetLang(q1, plang)
     ELSE [thrown |-> FALSE, init |-> q1]

\* ------------------------------------------------------- responses
\* an item of a reconciliation response: description and type are optional
Item(id, d, t) == [id |-> id, name |-> "X", description |-> d, type |-> t]
NoDescription == <<>>
NoType == [js |-> "undefined"]
TypeLists == {<<"Person", "Place">>}
Items == {Item(id, d, t) : id \in RawIds, d \in {NoDescription, <<"D">>},
                           t \in {NoType} \cup {[names |-> n] : n \in TypeLists}}

\* the item lists of a response: at most MaxResultItems items, distinct ids
ItemLists ==
  {l \in UNION {[1..n -> Items] : n \in 0..MaxResultItems} :
     \A i, j \in 1..Len(l) : i # j => l[i].id # l[j].id}

\* the decoded body of a response: obj[0].result (shape "array") or
\* obj.q0.result (shape "q0")
ResponseObjects == {[shape |-> sh, result |-> l] : sh \in {"array", "q0"}, l \in ItemLists}

\* part_001 198, 237: item.type.map(t => t.name.toString()).join(', ')
RECURSIVE Join(_)
Join(names) ==
  IF Len(names) = 0 THEN <<>>
  ELSE IF Len(names) = 1 THEN <<names[1]>>
  ELSE <<names[1], ", ">> \o Join(Tail(names))

\* part_001 195-201, 234-240: this.description
Details(item) ==
  IF item.description # NoDescription THEN item.description
  ELSE IF item.type # NoType THEN Join(item.type.names)
  ELSE <<>>

\* part_001 190-194, 229-233: this.view
Link(cfg, item) == IF cfg.view THEN <<"view/">> \o item.id ELSE item.id

\* part_001 190, 206: what makes the callback of forEach throw: no
\* ReconcConfig to read view from; in the newest variant item.type[0] of an
\* item without type
ItemThrows(version, cfg, item) ==
  \/ cfg = NoConfig
  \/ version = Newest /\ item.type = NoType

\* part_001 202-211, 241-249: const result
ResultRecord(version, cfg, pfx, item) ==
  IF version = Newest
  THEN [register |-> "register", id |-> External(pfx, item.id), label |-> item.name,
        type |-> <<item.type.names[1]>>, details |-> Details(item), score |-> 1,
        link |-> Link(cfg, item), provider |-> "Reconciliation"]
  ELSE [register |-> "register", id |-> External(pfx, item.id), label |-> item.name,
        type |-> item.type, details |-> Details(item),
        link |-> Link(cfg, item), provider |-> "Reconciliation"]

\* part_001 181-260: _parseResponse: the result set, or the throw
ParseResponse(version, obj, cfg, pfx) ==
  IF obj.shape # (IF version = Newest THEN "array" ELSE "q0")
  THEN [thrown |-> TRUE]
  ELSE IF \E i \in 1..Len(obj.result) : ItemThrows(version, cfg, obj.result[i])
  THEN [thrown |-> TRUE]
  ELSE [thrown |-> FALSE,
        value |-> [totalItems |-> Len(obj.result),
                   items |-> [i \in 1..Len(obj.result) |->
                                ResultRecord(version, cfg, pfx, obj.result[i])]]]

\* variant of PreviewMissing: the missing template goes unnoticed
PreviewMissingNever(cfg) == FALSE

\* part_001 136: if (!this.ReconcConfig.preview)
PreviewMissing(cfg) == ~cfg.preview

\* part_001 137: the text written when there is no preview template
NoPreviewMessage == <<"no 'preview' endpoint in reconciliation service's manifest">>

\* a call starts: nothing of an earlier call is kept
CallStarts(o, k) ==
  /\ rpc \in {"idle", "done"}
  /\ rop' = o
  /\ rkey' = k
  /\ parsedWith' = UndefinedVersion
  /\ answer' = [kind |-> "none"]
  /\ UNCHANGED <<manifest, manifestFetch, manifestFetches, ReconcConfig, reconcVersion,
                 prefix, processLang, acceptLang>>
  /\ UNCHANGED <<cvars, mvars>>

\* part_001 109-118: query up to the fetch: the request is built for the
\* version stored at this moment and sent, unless building it throws
SendQuery(k) ==
  LET b == BuildQuery(reconcVersion, k, acceptLang, processLang) IN
  /\ lookup' = k
  /\ calledWith' = reconcVersion
  /\ IF b.thrown
     THEN /\ requests' = <<>>
          /\ rpromise' = [state |-> "rejected", value |-> TypeErrorThrown]
          /\ rpc' = "done"
     ELSE /\ requests' = <<b.init>>
          /\ rpromise' = [state |-> "pending"]
          /\ rpc' = "awaitQuery"

\* part_001 109-118: query(key)
ServiceQuery ==
  \E k \in QueryKeys :
    /\ CallStarts("query", k)
    /\ SendQuery(k)
    /\ innerHTML' = NoText

\* part_001 165-170: getRecord(key): the prefix is stripped and query is
\* called with the rest
ServiceGetRecord ==
  \E k \in ExternalIds :
    /\ CallStarts("getRecord", k)
    /\ SendQuery(Strip(prefix, k))
    /\ innerHTML' = NoText

\* part_001 118-121, 171: the query request settles.  The response is
\* parsed for the version stored now; getRecord hands on items[0]
ServiceQueryAnswer ==
  /\ rpc = "awaitQuery"
  /\ \E a \in {TransportFailure} \cup {[kind |-> "response", status |-> 200, body |-> BadBody]}
                \cup {[kind |-> "response", status |-> 200, body |-> JsonBody(o)] : o \in ResponseObjects} :
       /\ answer' = a
       /\ IF a.kind = "reject"
          THEN /\ rpromise' = [state |-> "rejected", value |-> TypeError]
               /\ UNCHANGED parsedWith
          ELSE IF a.body = BadBody
          THEN /\ rpromise' = [state |-> "rejected", value |-> SyntaxError]
               /\ UNCHANGED parsedWith
          ELSE LET r == ParseResponse(reconcVersion, a.body.value, ReconcConfig, prefix) IN
               /\ parsedWith' = reconcVersion
               /\ rpromise' =
                    IF r.thrown THEN [state |-> "rejected", value |-> TypeErrorThrown]
                    ELSE IF rop = "query" THEN [state |-> "resolved", value |-> r.value]
                    ELSE IF Len(r.value.items) = 0 THEN [state |-> "resolved", value |-> Undefined]
                    ELSE [state |-> "resolved", value |-> r.value.items[1]]
  /\ rpc' = "done"
  /\ UNCHANGED <<manifest, manifestFetch, manifestFetches, ReconcConfig, reconcVersion,
                 prefix, processLang, acceptLang, rop, rkey, lookup, calledWith, requests,
                 innerHTML>>
  /\ UNCHANGED <<cvars, mvars>>

\* part_001 132-147: info(id, container) up to the fetch.  Without stored
\* manifest reading this.ReconcConfig.preview throws out of info itself.
ServiceInfo ==
  \E k \in ExternalIds \cup {NoText} :
    /\ CallStarts("info", k)
    /\ calledWith' = reconcVersion
    /\ IF k = NoText
       THEN /\ rpromise' = [state |-> "resolved", value |-> EmptyDescriptor]
            /\ rpc' = "done"
            /\ lookup' = NoText
            /\ requests' = <<>>
            /\ innerHTML' = NoText
       ELSE IF ReconcConfig = NoConfig
       THEN /\ rpromise' = [state |-> "thrown", value |-> TypeErrorThrown]
            /\ rpc' = "done"
            /\ lookup' = NoText
            /\ requests' = <<>>
            /\ innerHTML' = NoText
       ELSE IF PreviewMissing(ReconcConfig)
       THEN /\ innerHTML' = NoPreviewMessage
            /\ rpromise' = [state |-> "resolved", value |-> Undefined]
            /\ rpc' = "done"
            /\ lookup' = NoText
            /\ requests' = <<>>
       ELSE /\ lookup' = Strip(prefix, k)
            /\ requests' = <<[method |-> "GET", url |-> <<"preview/">> \o Strip(prefix, k)]>>
            /\ rpromise' = [state |-> "pending"]
            /\ rpc' = "awaitPreview"
            /\ innerHTML' = NoText

\* part_001 147-155: the preview request settles
ServiceInfoAnswer ==
  /\ rpc = "awaitPreview"
  /\ \E a \in {TransportFailure, [kind |-> "response", status |-> 200, body |-> JsonBody(<<"output">>)]} :
       /\ answer' = a
       /\ IF a.kind = "reject"
          THEN /\ rpromise' = [state |-> "rejected", value |-> Undefined]
               /\ UNCHANGED innerHTML
          ELSE /\ innerHTML' = a.body.value
               /\ rpromise' = [state |-> "resolved", value |-> [id |-> External(prefix, lookup)]]
  /\ rpc' = "done"
  /\ UNCHANGED <<manifest, manifestFetch, manifestFetches, ReconcConfig, reconcVersion,
                 prefix, processLang, acceptLang, rop, rkey, lookup, calledWith, parsedWith,
                 requests>>
  /\ UNCHANGED <<cvars, mvars>>

\* the manifests followed through query, info and getRecord: no versions
\* field, an empty list, the newest variant, a legacy version, and a version
\* above the ceiling; with and without preview and view template
ServedVersions ==
  {<<>>, <<V(<<0, 3>>, <<"alpha">>)>>, <<V(<<0, 2>>, <<>>)>>, <<V(<<0, 4>>, <<>>)>>}

InitService ==
  /\ CustomAbsent
  /\ MetagridAbsent
  /\ Constructed({Manifest(FALSE, <<>>, pv, vw) : pv \in BOOLEAN, vw \in BOOLEAN}
                   \cup {Manifest(TRUE, vs, pv, vw) : vs \in ServedVersions, pv \in BOOLEAN, vw \in BOOLEAN},
                 Prefixes, Langs, Langs)

NextService ==
  \/ ManifestResolve
  \/ ManifestReject
  \/ ServiceQuery
  \/ ServiceGetRecord
  \/ ServiceQueryAnswer
  \/ ServiceInfo
  \/ ServiceInfoAnswer

SpecService == InitService /\ [][NextService]_vars
\* ---------------------------------------------------------------- claims
ServiceCall == rop \in {"query", "getRecord"} /\ rpc \in {"awaitQuery", "done"}
\* the call was made before the manifest had arrived
CalledBeforeReady == calledWith = [js |-> "undefined"]
\* the answer to the query request was a decoded response
Decoded == answer.kind = "response" /\ answer.body.decodes

\* C11 as stated: a query made while the manifest request has not resolved
\* is rejected; it sends no request to the remote endpoint and does not
\* resolve with a result set.
C11_QueryBeforeReadyFails ==
  (rop = "query" /\ rpc \in {"awaitQuery", "done"} /\ CalledBeforeReady) =>
    /\ requests = <<>>
    /\ rpc = "done"
    /\ rpromise.state = "rejected"

\* C14 as stated: getRecord rejects when the manifest advertises no view
\* template and when the sub-query yields no items; otherwise it resolves
\* with the first record of the sub-query's items.
C14_GetRecordFailsWithoutViewOrItems ==
  (/\ rop = "getRecord"
   /\ rpc = "done"
   /\ ~CalledBeforeReady
   /\ Decoded
   /\ answer.body.value.shape = (IF parsedWith = Str(<<0, 3, 0>>, <<"alpha">>) THEN "array" ELSE "q0")
   /\ \A i \in 1..Len(answer.body.value.result) : answer.body.value.result[i].type # NoType)
    => IF ~manifest.view \/ Len(answer.body.value.result) = 0
       THEN rpromise.state = "rejected"
       ELSE /\ rpromise.state = "resolved"
            /\ rpromise.value.label = answer.body.value.result[1].name
            /\ rpromise.value.provider = "Reconciliation"

\* C15: info with a non-empty id on a connector whose stored manifest has no
\* preview template neither throws nor rejects: the container holds a
\* non-empty message, no request was sent, and the call has resolved with an
\* empty descriptor (undefined).
C15_InfoWithoutPreviewResolvesEmpty ==
  (rop = "info" /\ rkey # <<>> /\ ~CalledBeforeReady /\ ~manifest.preview) =>
    /\ rpc = "done"
    /\ rpromise = [state |-> "resolved", value |-> [js |-> "undefined"]]
    /\ innerHTML # <<>>
    /\ requests = <<>>

\* C15 witness: such a call has been made, with a prefixed id
C15_Witness ==
  /\ rop = "info"
  /\ rkey = <<"P", "-", "4", "2">>
  /\ manifestFetch = "resolved"
  /\ ~manifest.preview
  /\ ~CalledBeforeReady
  /\ rpromise.state = "resolved"
  /\ innerHTML # <<>>

\* C16: with a prefix P configured, every record query emits for the raw id
\* r has the id P-r; info and getRecord called with P-r hand exactly r to
\* the remote service (the preview url, the sub-query), and info resolves
\* with the id P-r again.
C16_PrefixRoundTrips ==
  prefix # <<>> =>
    /\ (rop = "query" /\ rpromise.state = "resolved") =>
         \A i \in 1..Len(rpromise.value.items) :
           rpromise.value.items[i].id = prefix \o <<"-">> \o answer.body.value.result[i].id
    /\ (rop = "info" /\ rpc = "awaitPreview") =>
         /\ rkey = prefix \o <<"-">> \o lookup
         /\ lookup \in RawIds
         /\ requests = <<[method |-> "GET", url |-> <<"preview/">> \o lookup]>>
    /\ (rop = "info" /\ rpromise.state = "resolved" /\ Len(requests) = 1) =>
         /\ rkey = prefix \o <<"-">> \o lookup
         /\ rpromise.value.id = rkey
    /\ (rop = "getRecord" /\ rpc \in {"awaitQuery", "done"}) =>
         /\ rkey = prefix \o <<"-">> \o lookup
         /\ lookup \in RawIds
         /\ Len(requests) = 1 => requests[1].body.json.query = lookup
    /\ (rop = "getRecord" /\ rpromise.state = "resolved" /\ Len(answer.body.value.result) > 0) =>
         rpromise.value.id = prefix \o <<"-">> \o answer.body.value.result[1].id

\* C16 witness: info was called with P-a-b, asked the remote service for a-b
\* and has resolved with P-a-b
C16_Witness ==
  /\ prefix = <<"P">>
  /\ rop = "info"
  /\ rkey = <<"P", "-", "a", "-", "b">>
  /\ lookup = <<"a", "-", "b">>
  /\ rpromise.state = "resolved"
  /\ rpromise.value.id = <<"P", "-", "a", "-", "b">>

\* C17 as stated: when versions are advertised and none satisfies the
\* ceiling the connector does not become Ready: a query made afterwards
\* fails, it is not served through the legacy request and parse path.
C17_NoCompatibleVersionIsHardFailure ==
  (/\ manifestFetch = "resolved"
   /\ manifest.hasVersions
   /\ manifest.versions # <<>>
   /\ Admissible = {}
   /\ ServiceCall
   /\ ~CalledBeforeReady)
    => /\ requests = <<>>
       /\ rpromise.state # "resolved"

\* C18 as stated: query builds its request by version and sends it: for the
\* newest variant a POST with a JSON body of one query entry carrying the
\* process-language hint (when configured) and the Accept-Language header
\* (when configured); for every other version the form-encoded legacy body
\* with neither.
C18_RequestBuiltByVersionAndSent ==
  (rop = "query" /\ rpc \in {"awaitQuery", "done"}) =>
    /\ Len(requests) = 1
    /\ requests[1].method = "POST"
    /\ requests[1].body.json.query = rkey
    /\ IF calledWith = Str(<<0, 3, 0>>, <<"alpha">>)
       THEN /\ requests[1].contentType = "application/json"
            /\ requests[1].body.json.shape = "queries"
            /\ requests[1].body.json.lang = processLang
            /\ requests[1].acceptLanguage = acceptLang
       ELSE /\ requests[1].contentType = "application/x-www-form-urlencoded"
            /\ requests[1].body.json.shape = "q0"
            /\ requests[1].body.json.lang = ""
            /\ requests[1].acceptLanguage = ""

\* the details the specification derives for a response item
ExpectedDetails(item) ==
  IF item.description # <<>> THEN item.description
  ELSE IF item.type # NoType
       THEN (IF Len(item.type.names) = 2
             THEN <<item.type.names[1], ", ", item.type.names[2]>>
             ELSE item.type.names)
       ELSE <<>>

\* C19 as stated: in the newest and in the legacy parse path every item of
\* the response becomes, in order, one record (totalItems is their number)
\* whose details is the description, else the joined type names, else
\* empty; also for items with neither description nor type.
C19_EveryItemBecomesOneRecord ==
  (/\ rop = "query"
   /\ rpc = "done"
   /\ Decoded
   /\ parsedWith # [js |-> "undefined"]
   /\ answer.body.value.shape = (IF parsedWith = Str(<<0, 3, 0>>, <<"alpha">>) THEN "array" ELSE "q0"))
    => /\ rpromise.state = "resolved"
       /\ rpromise.value.totalItems = Len(answer.body.value.result)
       /\ Len(rpromise.value.items) = Len(answer.body.value.result)
       /\ \A i \in 1..Len(answer.body.value.result) :
            rpromise.value.items[i].details = ExpectedDetails(answer.body.value.result[i])

\* the state of the specification's lifecycle the connector is in
Lifecycle ==
  IF manifestFetch = "pending" THEN "ManifestPending"
  ELSE IF manifestFetch = "resolved" /\ ReconcConfig # [js |-> "undefined"]
          /\ reconcVersion # [js |-> "null"] /\ reconcVersion # [js |-> "undefined"]
       THEN "Ready"
       ELSE "ManifestFailed"

\* C20: one manifest request per connector, sent by the constructor; the
\* connector leaves ManifestPending once, for Ready or ManifestFailed;
\* ManifestFailed is never left and nothing is stored in it later; once
\* Ready the stored manifest and the negotiated version never change.
C20_ManifestLifecycle ==
  [][/\ manifestFetches = 1 /\ manifestFetches' = 1
     /\ ReconcConfig = [js |-> "undefined"] => Lifecycle # "Ready"
     /\ Lifecycle = "ManifestFailed" =>
          /\ Lifecycle' = "ManifestFailed"
          /\ ReconcConfig' = ReconcConfig
          /\ reconcVersion' = reconcVersion
     /\ Lifecycle = "Ready" =>
          /\ Lifecycle' = "Ready"
          /\ ReconcConfig' = ReconcConfig
          /\ reconcVersion' = reconcVersion]_vars

\* C20 witness: the manifest request of a connector has failed and a query
\* made afterwards has ended
C20_Witness ==
  /\ manifestFetch = "rejected"
  /\ Lifecycle = "ManifestFailed"
  /\ rop = "query"
  /\ rpc = "done"
  /\ CalledBeforeReady
\* ------------------------------------------------- class Metagrid
\* custom.js 162-222. Texts are character sequences. Of a resource of
\* api.metagrid.ch the provider slug and the identifier are kept; metadata and
\* link are copied into the record and the rendered fragment unchanged and are
\* left out, as is the register name.
MaxResources == 2

\* the characters \w and \s of the regular expression of line 169 stand for
WordChars == {"a", "b", "d", "f", "g", "n", "q", "1", "2", "4", "7", "_"}
Whitespace == {" "}

Slugs == {<<"g", "n", "d">>, <<"b", "n", "f">>}
Identifiers == {<<"4", "2">>, <<"7", "-", "1">>}
SearchKeys == {<<"q">>, <<"q", "!", " ", "a">>}

\* custom.js 169: key.replace(/[^\w\s]+/g, '')
StripPunctuation(t) == SelectSeq(t, LAMBDA c : c \in WordChars \cup Whitespace)

\* custom.js 171: encodeURIComponent of a text of word characters and
\* whitespace: a space is escaped, a word character stands for itself
RECURSIVE EncodeURIComponent(_)
EncodeURIComponent(t) ==
  IF t = <<>> THEN <<>>
  ELSE (IF Head(t) \in Whitespace THEN <<"%20">> ELSE <<Head(t)>>)
         \o EncodeURIComponent(Tail(t))

\* String.prototype.indexOf: the 0-based position of the first c, or -1
IndexOf(t, c) ==
  IF \E i \in 1..Len(t) : t[i] = c
  THEN (CHOOSE i \in 1..Len(t) : t[i] = c /\ \A j \in 1..(i - 1) : t[j] # c) - 1
  ELSE -1

\* String.prototype.substring(a, b): both ends are clamped into 0..length and
\* swapped when a > b; the characters at the 0-based positions lo..hi-1
Substring(t, a, b) ==
  LET Clamp(n) == IF n < 0 THEN 0 ELSE IF n > Len(t) THEN Len(t) ELSE n
      lo == IF Clamp(a) <= Clamp(b) THEN Clamp(a) ELSE Clamp(b)
      hi == IF Clamp(a) <= Clamp(b) THEN Clamp(b) ELSE Clamp(a)
  IN  SubSeq(t, lo + 1, hi)

\* an item of json.resources
Resource(s, i) == [provider |-> [slug |-> s], identifier |-> i]
Resources == {Resource(s, i) : s \in Slugs, i \in Identifiers}

\* what api.metagrid.ch can answer: no answer at all, a body that is not
\* JSON, or {meta: {total}, resources: [...]}
MetagridAnswers ==
  {TransportFailure, [kind |-> "response", body |-> BadBody]}
    \cup {[kind |-> "response",
           body |-> JsonBody([meta |-> [total |-> Len(rs) + x], resources |-> rs])] :
            rs \in SeqsUpTo(Resources, MaxResources), x \in 0..MaxExtra}

\* custom.js 179-186: the record query emits for a resource
MetagridResult(item) ==
  [id |-> item.provider.slug \o <<"-">> \o item.identifier,
   provider |-> item.provider.slug]

\* a call starts from a fresh activation
MetagridFresh(o, k) ==
  /\ mpc \in {"idle", "done"}
  /\ mop' = o
  /\ mkey' = k
  /\ manswer' = NoAnswer
  /\ mpromise' = Pending
  /\ UNCHANGED <<cvars, rvars, emitted>>

\* custom.js 168-174: query(key) up to the fetch
MetagridQuery ==
  \E k \in SearchKeys :
    /\ MetagridFresh("query", k)
    /\ mrequest' = [kind |-> "search", query |-> EncodeURIComponent(StripPunctuation(k))]
    /\ mpc' = "awaitSearch"
    /\ UNCHANGED mcontainer

\* custom.js 174-193: the search settles. The promise of line 173 has no
\* rejection handler: a failed fetch or a body that is not JSON leaves it
\* pending.
MetagridQueryAnswer ==
  /\ mpc = "awaitSearch"
  /\ \E a \in MetagridAnswers :
       /\ manswer' = a
       /\ IF a.kind = "response" /\ a.body.decodes
          THEN LET json_ == a.body.value
                   items == [n \in 1..Len(json_.resources) |-> MetagridResult(json_.resources[n])]
               IN  /\ mpromise' = Resolve(mpromise, [totalItems |-> json_.meta.total, items |-> items])
                   /\ emitted' = emitted \cup
                        {[id |-> MetagridResult(json_.resources[n]).id,
                          slug |-> json_.resources[n].provider.slug,
                          identifier |-> json_.resources[n].identifier] :
                           n \in 1..Len(json_.resources)}
          ELSE UNCHANGED <<mpromise, emitted>>
  /\ mpc' = "done"
  /\ UNCHANGED <<cvars, rvars, mop, mkey, mrequest, mcontainer>>

\* the keys info is called with: the id of a record query has emitted, or a
\* text without separator
InfoKeys == {e.id : e \in emitted} \cup {<<"q">>}

\* custom.js 197-202: info(key, container) up to the fetch; slug and id are
\* put into the URL as they are
MetagridInfo ==
  \E k \in InfoKeys :
    /\ MetagridFresh("info", k)
    /\ LET p == IndexOf(k, "-")
           slug == Substring(k, 0, p)
           id == Substring(k, p, Len(k))
       IN  mrequest' = [kind |-> "lookup", slug |-> slug, query |-> id]
    /\ mpc' = "awaitLookup"
    /\ UNCHANGED mcontainer

\* custom.js 203-219: the lookup settles. Without a first resource the
\* callback throws on item.link and the promise of line 201 stays pending, as
\* it does after a failed fetch or a body that is not JSON.
MetagridInfoAnswer ==
  /\ mpc = "awaitLookup"
  /\ \E a \in MetagridAnswers :
       /\ manswer' = a
       /\ IF a.kind = "response" /\ a.body.decodes /\ Len(a.body.value.resources) > 0
          THEN LET item == a.body.value.resources[1]
               IN  /\ mcontainer' = <<item>>
                   /\ mpromise' = Resolve(mpromise, [id |-> mrequest.slug \o <<"-">> \o item.identifier])
          ELSE UNCHANGED <<mpromise, mcontainer>>
  /\ mpc' = "done"
  /\ UNCHANGED <<cvars, rvars, mop, mkey, mrequest, emitted>>

InitMetagrid ==
  /\ CustomAbsent
  /\ RemoteAbsent
  /\ MetagridAbsent

NextMetagrid ==
  \/ MetagridQuery
  \/ MetagridQueryAnswer
  \/ MetagridInfo
  \/ MetagridInfoAnswer

SpecMetagrid == InitMetagrid /\ [][NextMetagrid]_vars

\* C21 as stated: info called with the id of a record query has emitted
\* looks the record up with exactly the slug and exactly the identifier the
\* id was composed of, the separator belonging to neither, and resolves with
\* the same id when the lookup answers with that record.
C21_InfoLooksUpEmittedRecord ==
  (mop = "info" /\ mpc = "done")
    => \A e \in emitted :
         e.id = mkey
           => /\ mrequest.slug = e.slug
              /\ mrequest.query = e.identifier
              /\ (/\ manswer.kind = "response"
                  /\ manswer.body.decodes
                  /\ Len(manswer.body.value.resources) > 0
                  /\ manswer.body.value.resources[1] = Resource(e.slug, e.identifier))
                   => (mpromise.state = "resolved" /\ mpromise.value.id = mkey)

\* C22 as stated: whenever the manifest arrives relative to a query, the
\* response of a request is parsed for the protocol variant the request was
\* built for: a legacy request is never parsed by the newest-variant parser,
\* nor the reverse.
C22_BuiltAndParsedWithSameVersion ==
  (rop \in {"query", "getRecord"} /\ rpc = "done" /\ Len(requests) = 1 /\ Decoded)
    => ((calledWith = Newest) <=> (parsedWith = Newest))

\* C23 as stated: once the info of the aggregating connector has resolved
\* with a child's descriptor, no later child's info is called, and the
\* container holds what that child wrote.
C23_NoChildAskedAfterInfoResolved ==
  (op = "info" /\ key # EmptyKey /\ promise.state = "resolved" /\ promise.value.origin >= 1)
    => /\ Len(calls) = promise.value.origin
       /\ container = promise.value.origin

\* C24 as stated: a query, info or select call of the aggregating connector
\* whose transport and child calls have all settled has settled itself: when
\* nothing of the call is left to run, its promise is resolved or rejected.
C24_EveryCallSettles ==
  (op \in {"query", "info", "select"} /\ pc = "done")
    => promise.state \in {"resolved", "rejected"}
====
